---- MODULE Spec2Model ----
(***************************************************************************)
(* Fail2ban banned-IP monitor: the reconciliation pass of src/app.py       *)
(* (update_banned_ips), the JSON history file it loads and rewrites, the   *)
(* fail2ban-client queries it reads, and the HTTP handlers that trigger    *)
(* or read it.                                                             *)
(*                                                                         *)
(* Time is counted in whole days.  A datetime is [t, aware]: aware is      *)
(* TRUE for datetime.now(central_tz) and FALSE for the naive values of     *)
(* datetime.now(), datetime.fromtimestamp() and datetime.strptime().       *)
(* An ISO string is [fmt, t, offset]; offset says whether the text ends    *)
(* in a UTC offset.                                                        *)
(***************************************************************************)
EXTENDS Integers, Sequences, FiniteSets, TLC

VARIABLES
    clock,   \* wall clock, in days
    file,    \* banned_ips.json
    last,    \* the last call of update_banned_ips: how it ended, and its locals
    resp,    \* the HTTP response of the last step, if it served a request
    repeat,  \* history: the last call repeated the call before it (see Repeats)
    streak,  \* history: per (ip, jail), the committed passes in a row reporting it
    probe,   \* one answer of fail2ban and what each query function returned for it
    passes,  \* per caller, the position and locals of a pass that runs step by step
    commits, \* history: the snapshots saved by the step-by-step passes, in order
    loader   \* model_loader: _banned_ip_model, _model_lock and the calling threads

vars == <<clock, file, last, resp, repeat, streak, probe, passes, commits, loader>>

(***************************** bounds and inputs ***************************)

\* timedelta(weeks=1), in days
RetentionDays == 7

\* the clock stops here
MaxTime == 13

\* days between the starts of two successive passes
Elapsed == {3, 7}

IP1 == "10.0.0.5"
IP2 == "10.0.0.5_a"
JailA == "sshd"
JailB == "a_sshd"
Jails == {JailA, JailB}

(******************************* datetimes *********************************)

\* datetime.now(central_tz)
now_central(c) == [t |-> c, aware |-> TRUE]

\* datetime.now()
now_naive(c) == [t |-> c, aware |-> FALSE]

\* datetime.isoformat()
isoformat(dt) == [fmt |-> "iso", t |-> dt.t, offset |-> dt.aware]

\* JSON null
None == [fmt |-> "none", t |-> 0, offset |-> FALSE]

\* datetime.fromisoformat(): raises ValueError on text that is no ISO date
fromisoformat(s) ==
    IF s.fmt = "iso"
    THEN [raised |-> FALSE, dt |-> [t |-> s.t, aware |-> s.offset]]
    ELSE [raised |-> TRUE, dt |-> [t |-> 0, aware |-> FALSE]]

\* current_time - timedelta(weeks=1)
one_week_ago(current_time) ==
    [t |-> current_time.t - RetentionDays, aware |-> current_time.aware]

\* a > b on datetimes: TypeError when one is naive and the other aware
later_than(a, b) ==
    IF a.aware # b.aware
    THEN [raised |-> TRUE, value |-> FALSE]
    ELSE [raised |-> FALSE, value |-> a.t > b.t]

(**************************** the ban source ********************************)

\* How one command variant of commands_to_try ends: exit code 0, a non-zero
\* exit code, FileNotFoundError, or subprocess.TimeoutExpired.
CommandEnds == {"ok", "nonzero", "notfound", "timeout"}

\* The loop over commands_to_try: the first variant with exit code 0 wins;
\* a non-zero exit and FileNotFoundError go on to the next variant;
\* TimeoutExpired is not caught in the loop and reaches the outer handler.
RECURSIVE run_commands(_, _)
run_commands(run, i) ==
    IF i > Len(run) THEN "exhausted"
    ELSE IF run[i] = "ok" THEN "ok"
    ELSE IF run[i] = "timeout" THEN "exception"
    ELSE run_commands(run, i + 1)

\* get_all_jails(): the jails of the 'Jail list:' line, ["sshd"] otherwise
get_all_jails(src) ==
    IF run_commands(src.run, 1) = "ok" /\ src.has_jail_line
    THEN src.jails
    ELSE <<JailA>>

\* get_banned_ips_for_jail(jail)
get_banned_ips_for_jail(src, jail) ==
    IF run_commands(src.run, 1) = "ok" THEN src.banip[jail] ELSE <<>>

(************************* raw ban-time resolution *************************)

\* f"{ip}_{jail}"
ip_jail_key(ip, jail) == ip \o "_" \o jail

\* ban_date.replace('.', '').isdigit()
is_epoch_text(ban_date) == ban_date.kind \in {"epoch", "dotted", "huge"}

\* datetime.fromtimestamp(float(ban_date)): float() raises ValueError on
\* digits with several points, fromtimestamp raises on a value out of range
fromtimestamp(ban_date) ==
    IF ban_date.kind = "epoch"
    THEN [raised |-> FALSE, dt |-> [t |-> ban_date.v, aware |-> FALSE]]
    ELSE [raised |-> TRUE, dt |-> [t |-> 0, aware |-> FALSE]]

\* the candidate formats, in the order they are tried
Formats == << <<"ymd", "hms">>, <<"mdy", "hms">>, <<"ymd", "hm">>, <<"mdy", "hm">> >>

\* datetime.strptime(f"{ban_date} {ban_time}", fmt) succeeds
strptime_ok(ban_date, ban_time, fmt) ==
    ban_date.kind = fmt[1] /\ ban_time = fmt[2]

\* the lines 319-343: the ISO string stored for one raw line
resolve_ban_time(ban_date, ban_time, wall) ==
    LET fallback == isoformat(now_naive(wall)) IN
    IF is_epoch_text(ban_date)
    THEN IF fromtimestamp(ban_date).raised
         THEN fallback
         ELSE isoformat(fromtimestamp(ban_date).dt)
    ELSE IF \E i \in 1..Len(Formats) : strptime_ok(ban_date, ban_time, Formats[i])
         THEN isoformat([t |-> ban_date.v, aware |-> FALSE])
         ELSE fallback

\* line.strip().split() of a line awk printed from the fields (address,
\* date, time): an empty time field leaves two parts
split_line(raw) == IF raw[3] = "" THEN <<raw[1], raw[2]>> ELSE raw

\* the loop over the lines with fromtimestamp's exceptions left uncaught:
\* the first line whose conversion raises ends the jail's loop
RECURSIVE ban_times_of_lines_aborting(_, _, _, _, _)
ban_times_of_lines_aborting(ban_data, lines, i, jail, wall) ==
    IF i > Len(lines) THEN ban_data
    ELSE LET parts == split_line(lines[i])
         IN IF Len(parts) < 3
            THEN ban_times_of_lines_aborting(ban_data, lines, i + 1, jail, wall)
            ELSE IF is_epoch_text(parts[2]) /\ fromtimestamp(parts[2]).raised
            THEN ban_data
            ELSE ban_times_of_lines_aborting(
                     (ip_jail_key(parts[1], jail)
                         :> resolve_ban_time(parts[2], parts[3], wall)) @@ ban_data,
                     lines, i + 1, jail, wall)

\* the loop over the lines of one jail's --with-time output
RECURSIVE ban_times_of_lines(_, _, _, _, _)
ban_times_of_lines(ban_data, lines, i, jail, wall) ==
    IF i > Len(lines) THEN ban_data
    ELSE LET parts == split_line(lines[i])
             next == IF Len(parts) >= 3
                     THEN (ip_jail_key(parts[1], jail)
                              :> resolve_ban_time(parts[2], parts[3], wall)) @@ ban_data
                     ELSE ban_data
         IN ban_times_of_lines(next, lines, i + 1, jail, wall)

\* the loop over all_jails
RECURSIVE ban_times_of_jails(_, _, _, _, _)
ban_times_of_jails(ban_data, all_jails, j, src, wall) ==
    IF j > Len(all_jails) THEN ban_data
    ELSE ban_times_of_jails(
             ban_times_of_lines(ban_data, src.withtime[all_jails[j]], 1, all_jails[j], wall),
             all_jails, j + 1, src, wall)

\* get_banned_ips_with_actual_ban_times(): a dict from f"{ip}_{jail}" to an ISO string
get_banned_ips_with_actual_ban_times(src, wall) ==
    LET jails == get_all_jails(src)
        all_jails == IF jails = <<>> THEN <<JailA>> ELSE jails
    IN ban_times_of_jails(<<>>, all_jails, 1, src, wall)

(***************************** the history file ****************************)

\* {"ips": [], "last_updated": None}
EmptyData == [ips |-> <<>>, last_updated |-> None]

\* before the first save there is no banned_ips.json
NoFile == [state |-> "absent", data |-> EmptyData]

\* banned_ips.json after open(..., 'w') emptied it and json.dump did not
\* finish: whatever prefix it holds is no JSON document
TruncatedFile == [state |-> "truncated", data |-> EmptyData]

\* load_banned_ips_from_file(): a missing file and a file json.load cannot
\* read both give the empty snapshot
load_banned_ips_from_file(f) ==
    IF f.state = "complete" THEN f.data ELSE EmptyData

\* save_banned_ips_to_file(ips_data): open(..., 'w') truncates the file, then
\* json.dump writes it; an exception in either is logged and swallowed
save_banned_ips_to_file(f, ips_data, fault) ==
    IF fault = "save_open" THEN f
    ELSE IF fault = "save_dump" THEN TruncatedFile
    ELSE [state |-> "complete", data |-> ips_data]

(*************************** the reconciliation pass ***********************)

\* ip_record taking the default ban time from a second reading of the
\* clock, datetime.now(), as the resolver's fallback does
ip_record_second_clock(ip, jail, actual_ban_times, current_time) ==
    [ip_address |-> ip,
     jail |-> jail,
     banned_at |-> IF ip_jail_key(ip, jail) \in DOMAIN actual_ban_times
                   THEN actual_ban_times[ip_jail_key(ip, jail)]
                   ELSE isoformat(now_naive(current_time.t)),
     abuse_url |-> "https://abuseipdb.com/check/" \o ip]

\* the record built for one banned address of one jail
ip_record(ip, jail, actual_ban_times, current_time) ==
    [ip_address |-> ip,
     jail |-> jail,
     banned_at |-> IF ip_jail_key(ip, jail) \in DOMAIN actual_ban_times
                   THEN actual_ban_times[ip_jail_key(ip, jail)]
                   ELSE isoformat(current_time),
     abuse_url |-> "https://abuseipdb.com/check/" \o ip]

\* the inner loop: for ip in jail_ips
RECURSIVE records_of_jail(_, _, _, _, _)
records_of_jail(jail_ips, i, jail, actual_ban_times, current_time) ==
    IF i > Len(jail_ips) THEN <<>>
    ELSE <<ip_record(jail_ips[i], jail, actual_ban_times, current_time)>>
         \o records_of_jail(jail_ips, i + 1, jail, actual_ban_times, current_time)

\* the outer loop: for jail in jails -- the value of all_ips
RECURSIVE current_records(_, _, _, _, _)
current_records(jails, j, src, actual_ban_times, current_time) ==
    IF j > Len(jails) THEN <<>>
    ELSE records_of_jail(get_banned_ips_for_jail(src, jails[j]), 1, jails[j],
                         actual_ban_times, current_time)
         \o current_records(jails, j + 1, src, actual_ban_times, current_time)

\* the clean-up loop treating an exception as "not newer than the cutoff":
\* a record whose banned_at is missing or cannot be parsed is dropped
keeps_parsed_only(record, current_time) ==
    IF "banned_at" \notin DOMAIN record THEN FALSE
    ELSE LET parsed == fromisoformat(record.banned_at)
             cmp == later_than(parsed.dt, one_week_ago(current_time))
         IN IF parsed.raised THEN FALSE
            ELSE IF cmp.raised THEN TRUE
            ELSE cmp.value

\* whether the clean-up loop keeps a record: banned_time > one_week_ago, and
\* any exception (no banned_at, unparsable text, naive against aware) keeps it
keeps(record, current_time) ==
    IF "banned_at" \notin DOMAIN record THEN TRUE
    ELSE LET parsed == fromisoformat(record.banned_at)
             cmp == later_than(parsed.dt, one_week_ago(current_time))
         IN IF parsed.raised THEN TRUE
            ELSE IF cmp.raised THEN TRUE
            ELSE cmp.value

\* the clean-up loop: cleaned_ips before the merge
RECURSIVE clean_old(_, _, _)
clean_old(ips, i, current_time) ==
    IF i > Len(ips) THEN <<>>
    ELSE (IF keeps(ips[i], current_time) THEN <<ips[i]>> ELSE <<>>)
         \o clean_old(ips, i + 1, current_time)

\* existing_ip_keys
existing_ip_keys(cleaned_ips) ==
    {ip_jail_key(cleaned_ips[i].ip_address, cleaned_ips[i].jail) : i \in 1..Len(cleaned_ips)}

\* new_records without the test of the key: every current record is appended
new_records_unfiltered(all_ips, i, keys) == all_ips

\* the merge loop: the records of all_ips whose key is not in existing_ip_keys
RECURSIVE new_records(_, _, _)
new_records(all_ips, i, keys) ==
    IF i > Len(all_ips) THEN <<>>
    ELSE (IF ip_jail_key(all_ips[i].ip_address, all_ips[i].jail) \notin keys
          THEN <<all_ips[i]>> ELSE <<>>)
         \o new_records(all_ips, i + 1, keys)

\* merge under the policy "refresh the timestamp on every sighting": a kept
\* record whose key is reported again takes the newly resolved banned_at
merge_refreshing(cleaned_ips, all_ips) ==
    [i \in 1..Len(cleaned_ips) |->
        IF \E k \in 1..Len(all_ips) :
               ip_jail_key(all_ips[k].ip_address, all_ips[k].jail)
                   = ip_jail_key(cleaned_ips[i].ip_address, cleaned_ips[i].jail)
        THEN [cleaned_ips[i] EXCEPT !.banned_at =
                 all_ips[CHOOSE k \in 1..Len(all_ips) :
                     ip_jail_key(all_ips[k].ip_address, all_ips[k].jail)
                         = ip_jail_key(cleaned_ips[i].ip_address, cleaned_ips[i].jail)].banned_at]
        ELSE cleaned_ips[i]]
    \o new_records(all_ips, 1, existing_ip_keys(cleaned_ips))

\* cleaned_ips after the merge
merge(cleaned_ips, all_ips) ==
    cleaned_ips \o new_records(all_ips, 1, existing_ip_keys(cleaned_ips))

\* all_ips of a pass run at day c against source src
observed(src, c) ==
    current_records(get_all_jails(src), 1, src,
                    get_banned_ips_with_actual_ban_times(src, c), now_central(c))

\* updated_data of a pass run at day c on file f
updated_data(f, src, c) ==
    [ips |-> merge(clean_old(load_banned_ips_from_file(f).ips, 1, now_central(c)),
                   observed(src, c)),
     last_updated |-> isoformat(now_central(c))]

\* where an exception can be raised inside the try block, before the save
Uncaught == {"jails", "query", "load", "expire", "merge"}

\* inside save_banned_ips_to_file, which has its own handler
SaveFaults == {"save_open", "save_dump"}

Faults == {"none"} \cup Uncaught \cup SaveFaults

\* update_banned_ips without its try/except: an exception raised before the
\* save leaves the function
update_banned_ips_unguarded(f, src, c, fault) ==
    [file |-> IF fault \in Uncaught THEN f
              ELSE save_banned_ips_to_file(f, updated_data(f, src, c), fault),
     raised |-> fault \in Uncaught,
     outcome |-> IF fault \in Uncaught THEN "aborted"
                 ELSE IF fault \in SaveFaults THEN "save_failed" ELSE "committed",
     jails |-> get_all_jails(src),
     ban_keys |-> DOMAIN get_banned_ips_with_actual_ban_times(src, c),
     all_ips |-> observed(src, c),
     existing |-> load_banned_ips_from_file(f).ips]

\* update_banned_ips returning early when no jail is found, before the
\* clean-up and the save
update_banned_ips_needs_jails(f, src, c, fault) ==
    [file |-> IF fault \in Uncaught \/ get_all_jails(src) = <<>> THEN f
              ELSE save_banned_ips_to_file(f, updated_data(f, src, c), fault),
     raised |-> FALSE,
     outcome |-> IF fault \in Uncaught \/ get_all_jails(src) = <<>> THEN "aborted"
                 ELSE IF fault \in SaveFaults THEN "save_failed" ELSE "committed",
     jails |-> get_all_jails(src),
     ban_keys |-> DOMAIN get_banned_ips_with_actual_ban_times(src, c),
     all_ips |-> observed(src, c),
     existing |-> load_banned_ips_from_file(f).ips]

\* update_banned_ips(): the file it leaves, whether an exception left the
\* function, how the pass ended, and its locals jails, the keys of
\* actual_ban_times, all_ips and existing_data["ips"] as far as the pass got
update_banned_ips(f, src, c, fault) ==
    IF fault \in Uncaught
    THEN [file |-> f, raised |-> FALSE, outcome |-> "aborted",
          jails |-> IF fault = "jails" THEN <<>> ELSE get_all_jails(src),
          ban_keys |-> IF fault = "jails" THEN {}
                       ELSE DOMAIN get_banned_ips_with_actual_ban_times(src, c),
          all_ips |-> IF fault \in {"jails", "query"} THEN <<>> ELSE observed(src, c),
          existing |-> IF fault \in {"jails", "query", "load"} THEN <<>>
                       ELSE load_banned_ips_from_file(f).ips]
    ELSE [file |-> save_banned_ips_to_file(f, updated_data(f, src, c), fault),
          raised |-> FALSE,
          outcome |-> IF fault \in SaveFaults THEN "save_failed" ELSE "committed",
          jails |-> get_all_jails(src),
          ban_keys |-> DOMAIN get_banned_ips_with_actual_ban_times(src, c),
          all_ips |-> observed(src, c),
          existing |-> load_banned_ips_from_file(f).ips]

(***************************** what fail2ban answers ***********************)

AllFound == <<"ok", "ok", "ok", "ok">>
NoSudo == <<"notfound", "nonzero", "notfound", "ok">>
NotInstalled == <<"notfound", "notfound", "notfound", "notfound">>

NoBans == [j \in Jails |-> <<>>]

\* One answer of the daemon to the queries of a pass: how the command
\* variants end, the 'Jail list:' line, each jail's banip output and each
\* jail's --with-time lines (address, date field, time field).
Source(run, jails, banip, withtime) ==
    [run |-> run, has_jail_line |-> TRUE, jails |-> jails,
     banip |-> banip, withtime |-> withtime]

Sources ==
    { Source(AllFound, <<>>, NoBans, NoBans),
      Source(AllFound, <<JailA>>, [NoBans EXCEPT ![JailA] = <<IP1>>], NoBans),
      Source(AllFound, <<JailA>>, [NoBans EXCEPT ![JailA] = <<IP1>>],
             [NoBans EXCEPT ![JailA] = << <<IP1, [kind |-> "epoch", v |-> 0], "hms">> >>]),
      Source(NoSudo, <<JailA>>, [NoBans EXCEPT ![JailA] = <<IP1, IP1>>], NoBans),
      Source(AllFound, <<JailA, JailA>>, [NoBans EXCEPT ![JailA] = <<IP1>>], NoBans),
      Source(AllFound, <<JailA>>, [NoBans EXCEPT ![JailA] = <<IP2>>], NoBans),
      Source(AllFound, <<JailA, JailB>>,
             [NoBans EXCEPT ![JailA] = <<IP1>>, ![JailB] = <<IP1>>],
             [NoBans EXCEPT ![JailB] = << <<IP1, [kind |-> "text", v |-> 0], "text">> >>]),
      Source(NotInstalled, <<JailA>>, [NoBans EXCEPT ![JailA] = <<IP1>>], NoBans) }

Pairs == {IP1, IP2} \X Jails

(********************************** state **********************************)

NoCall == [caller |-> "none", fault |-> "none", outcome |-> "none",
           raised |-> FALSE, jails |-> <<>>, ban_keys |-> {}, all_ips |-> <<>>,
           existing |-> <<>>]

NoResponse == [route |-> "none", status |-> 0, success |-> FALSE, data |-> EmptyData]

\* the (ip, jail) pairs of a list of records, in order
pairs_of(ips) == [i \in 1..Len(ips) |-> <<ips[i].ip_address, ips[i].jail>>]

\* the banned_at of the first record of a pair, None when it has no record
stored_banned_at(ips, pair) ==
    IF \E i \in 1..Len(ips) : pairs_of(ips)[i] = pair
    THEN ips[CHOOSE i \in 1..Len(ips) :
                 /\ pairs_of(ips)[i] = pair
                 /\ \A k \in 1..(i - 1) : pairs_of(ips)[k] # pair].banned_at
    ELSE None

NoStreak == [n |-> 0, resolved |-> None, stored |-> None]

\* no query function has been called
NoProbe == [src |-> Source(NotInstalled, <<>>, NoBans, NoBans), asked |-> {},
            jails |-> <<>>, banned |-> <<>>, ban_times |-> <<>>, all_ips |-> <<>>]

\* no pass is running step by step
NoPass == [pc |-> "idle", current_time |-> 0, all_ips |-> <<>>, updated_data |-> EmptyData,
           overwritten |-> FALSE]

Callers == {"scheduler", "api_refresh"}

NoPasses == [caller \in Callers |-> NoPass]

\* _banned_ip_model = None; a class object is named by the call that made it
NoModel == [by |-> "nobody", call |-> 0]

\* model_loader as imported, with no thread calling get_model: the global
\* _banned_ip_model, the holder of _model_lock, the 'BannedIP' entry of the
\* SQLAlchemy class registry, how many classes get_model has created, the
\* class objects it has returned, and the threads inside it
NoLoader == [model |-> NoModel, lock |-> "free", registry |-> NoModel, created |-> 0,
             returned |-> {}, threads |-> <<>>]

\* the parts of the state that the calls of update_banned_ips as a whole,
\* and the readers of the file, never touch
others == <<probe, passes, commits, loader>>

\* History of a call that ended as r: both it and the call before it
\* committed, the source answered both with the same jails and the same
\* banned addresses, and no record it loaded was past the cutoff.
Repeats(r, c) ==
    /\ last.outcome = "committed"
    /\ r.outcome = "committed"
    /\ r.jails = last.jails
    /\ pairs_of(r.all_ips) = pairs_of(last.all_ips)
    /\ \A i \in 1..Len(r.existing) : keeps(r.existing[i], now_central(c))

\* History of a call that ended as r: a pair's streak counts the committed
\* passes in a row (up to three) that reported it, and remembers what the
\* first of them resolved for it and stored for it.
Streaks(r) ==
    [p \in Pairs |->
        IF r.outcome = "committed" /\ \E i \in 1..Len(r.all_ips) : pairs_of(r.all_ips)[i] = p
        THEN IF streak[p].n = 0
             THEN [n |-> 1,
                   resolved |-> stored_banned_at(r.all_ips, p),
                   stored |-> stored_banned_at(r.file.data.ips, p)]
             ELSE [streak[p] EXCEPT !.n = IF @ < 3 THEN @ + 1 ELSE 3]
        ELSE NoStreak]

Init ==
    /\ clock = 0
    /\ file = NoFile
    /\ last = NoCall
    /\ resp = NoResponse
    /\ repeat = FALSE
    /\ streak = [p \in Pairs |-> NoStreak]
    /\ probe = NoProbe
    /\ passes = NoPasses
    /\ commits = <<>>
    /\ loader = NoLoader

\* one call of update_banned_ips(), d days after the previous one
Pass(caller, d, src, fault) ==
    /\ clock + d <= MaxTime
    /\ \E r \in {update_banned_ips(file, src, clock + d, fault)} :
        /\ clock' = clock + d
        /\ file' = r.file
        /\ last' = [caller |-> caller, fault |-> fault, outcome |-> r.outcome,
                    raised |-> r.raised, jails |-> r.jails, ban_keys |-> r.ban_keys,
                    all_ips |-> r.all_ips, existing |-> r.existing]
        /\ repeat' = Repeats(r, clock + d)
        /\ streak' = Streaks(r)
        /\ UNCHANGED others

\* the scheduler's job (and the call at start-up): no HTTP response
ScheduledUpdate ==
    \E d \in Elapsed, src \in Sources, fault \in Faults :
        /\ Pass("scheduler", d, src, fault)
        /\ resp' = NoResponse

\* GET /api/refresh
api_refresh ==
    \E d \in Elapsed, src \in Sources, fault \in Faults :
        /\ Pass("api_refresh", d, src, fault)
        /\ resp' = IF last'.raised
                   THEN [route |-> "refresh", status |-> 500, success |-> FALSE,
                         data |-> EmptyData]
                   ELSE [route |-> "refresh", status |-> 200, success |-> TRUE,
                         data |-> EmptyData]

\* GET /api/banned-ips
api_banned_ips ==
    /\ resp' = [route |-> "banned-ips", status |-> 200, success |-> TRUE,
                data |-> load_banned_ips_from_file(file)]
    /\ UNCHANGED <<clock, file, last, repeat, streak>>
    /\ UNCHANGED others

Next ==
    \/ ScheduledUpdate
    \/ api_refresh
    \/ api_banned_ips

Spec == Init /\ [][Next]_vars

(******************** a store written by something else ********************)

IP3 == "192.0.2.7"

\* a banned_ips.json holding a record whose banned_at is no ISO date and a
\* record without banned_at
LegacyFile ==
    [state |-> "complete",
     data |-> [ips |-> << [ip_address |-> IP3, jail |-> JailA,
                           banned_at |-> [fmt |-> "text", t |-> 0, offset |-> FALSE],
                           abuse_url |-> "https://abuseipdb.com/check/" \o IP3],
                          [ip_address |-> IP3, jail |-> JailB,
                           abuse_url |-> "https://abuseipdb.com/check/" \o IP3] >>,
               last_updated |-> None]]

InitLegacy ==
    /\ clock = 0
    /\ file = LegacyFile
    /\ last = NoCall
    /\ resp = NoResponse
    /\ repeat = FALSE
    /\ streak = [p \in Pairs |-> NoStreak]
    /\ probe = NoProbe
    /\ passes = NoPasses
    /\ commits = <<>>
    /\ loader = NoLoader

SpecLegacy == InitLegacy /\ [][Next]_vars

(************************* the query functions alone ***********************)

\* the date field of a raw line: an epoch, digits with several points, an
\* epoch out of range, a YYYY-MM-DD date, a MM/DD/YYYY date, other text
ProbeDates ==
    {[kind |-> k, v |-> 0] : k \in {"epoch", "dotted", "huge", "ymd", "mdy", "text"}}

\* the time field of a raw line: HH:MM:SS, HH:MM, other text, or nothing
ProbeTimes == {"hms", "hm", "text", ""}

\* answers of fail2ban: every way the four command variants can end, every
\* pair of raw lines, and a status output without a 'Jail list:' line
ProbeSources ==
    {Source(run, <<JailA, JailB>>, [NoBans EXCEPT ![JailA] = <<IP1>>], NoBans) :
        run \in [DOMAIN AllFound -> CommandEnds]}
    \cup
    {Source(AllFound, <<JailA>>, [NoBans EXCEPT ![JailA] = <<IP1, IP2>>],
            [NoBans EXCEPT ![JailA] = << <<IP1, d1, t1>>, <<IP2, d2, t2>> >>]) :
        d1 \in ProbeDates, d2 \in ProbeDates, t1 \in ProbeTimes, t2 \in ProbeTimes}
    \cup
    {[Source(AllFound, <<JailA>>, [NoBans EXCEPT ![JailA] = <<IP1>>], NoBans)
         EXCEPT !.has_jail_line = FALSE]}

InitSource ==
    /\ clock \in {1, 2}
    /\ file = NoFile
    /\ last = NoCall
    /\ resp = NoResponse
    /\ repeat = FALSE
    /\ streak = [p \in Pairs |-> NoStreak]
    /\ probe \in {[NoProbe EXCEPT !.src = src] : src \in ProbeSources}
    /\ passes = NoPasses
    /\ commits = <<>>
    /\ loader = NoLoader

\* a query function is called once and its return value kept
Call(name, field, value) ==
    /\ name \notin probe.asked
    /\ probe' = [probe EXCEPT !.asked = @ \cup {name}, ![field] = value]
    /\ UNCHANGED <<clock, file, last, resp, repeat, streak, passes, commits, loader>>

call_get_all_jails ==
    Call("jails", "jails", get_all_jails(probe.src))

call_get_banned_ips_for_jail ==
    Call("banned", "banned", [jail \in Jails |-> get_banned_ips_for_jail(probe.src, jail)])

call_get_banned_ips_with_actual_ban_times ==
    Call("times", "ban_times", get_banned_ips_with_actual_ban_times(probe.src, clock))

\* the lines 214-239 of update_banned_ips
call_observed ==
    Call("records", "all_ips", observed(probe.src, clock))

NextSource ==
    \/ call_get_all_jails
    \/ call_get_banned_ips_for_jail
    \/ call_get_banned_ips_with_actual_ban_times
    \/ call_observed

SpecSource == InitSource /\ [][NextSource]_vars

(******************* passes that run at the same time **********************)

\* the scheduler's thread and a request thread are each inside at most one
\* call of update_banned_ips; this many calls are started in all
MaxPasses == 3

\* the clock stops here
MaxTick == 2

\* what fail2ban answers while passes overlap
OverlapSources ==
    { Source(AllFound, <<JailA>>, NoBans, NoBans),
      Source(AllFound, <<JailA>>, [NoBans EXCEPT ![JailA] = <<IP1>>], NoBans),
      Source(AllFound, <<JailA>>, [NoBans EXCEPT ![JailA] = <<IP2>>], NoBans) }

InitOverlap ==
    /\ clock = 0
    /\ file = NoFile
    /\ last = NoCall
    /\ resp = NoResponse
    /\ repeat = FALSE
    /\ streak = [p \in Pairs |-> NoStreak]
    /\ probe = NoProbe
    /\ passes = NoPasses
    /\ commits = <<>>
    /\ loader = NoLoader

\* the calls started so far: those that saved and those still running
Started == Len(commits) + Cardinality({k \in Callers : passes[k].pc # "idle"})

\* time passes
Tick ==
    /\ clock < MaxTick
    /\ clock' = clock + 1
    /\ UNCHANGED <<file, last, resp, repeat, streak, probe, passes, commits, loader>>

\* lines 214-239: caller k enters update_banned_ips, reads the clock and
\* queries fail2ban
begin_pass(k) ==
    \E src \in OverlapSources :
        /\ passes[k].pc = "idle"
        /\ Started < MaxPasses
        /\ passes' = [passes EXCEPT ![k] =
                          [NoPass EXCEPT !.pc = "242",
                                         !.current_time = clock,
                                         !.all_ips = observed(src, clock)]]
        /\ UNCHANGED <<clock, file, last, resp, repeat, streak, probe, commits, loader>>

\* lines 242-273: load the file, expire, merge, build updated_data
load_and_merge(k) ==
    /\ passes[k].pc = "242"
    /\ passes' = [passes EXCEPT
           ![k].pc = "202",
           ![k].updated_data =
               [ips |-> merge(clean_old(load_banned_ips_from_file(file).ips, 1,
                                        now_central(passes[k].current_time)),
                              passes[k].all_ips),
                last_updated |-> isoformat(now_central(passes[k].current_time))]]
    /\ UNCHANGED <<clock, file, last, resp, repeat, streak, probe, commits, loader>>

\* line 202: open(BANNED_IPS_FILE, 'w') empties the file
open_for_write(k) ==
    /\ passes[k].pc = "202"
    /\ file' = TruncatedFile
    /\ passes' = [passes EXCEPT ![k].pc = "203", ![k].overwritten = FALSE]
    /\ UNCHANGED <<clock, last, resp, repeat, streak, probe, commits, loader>>

\* line 203: json.dump and the close write updated_data from the start of
\* the file.  When the other pass wrote the file after this one opened it,
\* the file holds this document, or this document followed by the rest of a
\* longer one, which no reader can parse.
dump(k) ==
    /\ passes[k].pc = "203"
    /\ file' \in {[state |-> "complete", data |-> passes[k].updated_data]}
                   \cup (IF passes[k].overwritten THEN {TruncatedFile} ELSE {})
    /\ passes' = [c \in Callers |->
                      IF c = k THEN NoPass
                      ELSE IF passes[c].pc = "203"
                           THEN [passes[c] EXCEPT !.overwritten = TRUE]
                           ELSE passes[c]]
    /\ commits' = Append(commits, [caller |-> k,
                                    current_time |-> passes[k].current_time,
                                    ips |-> passes[k].updated_data.ips])
    /\ UNCHANGED <<clock, last, resp, repeat, streak, probe, loader>>

NextOverlap ==
    \/ Tick
    \/ \E k \in Callers :
           \/ begin_pass(k)
           \/ load_and_merge(k)
           \/ open_for_write(k)
           \/ dump(k)

SpecOverlap == InitOverlap /\ [][NextOverlap]_vars

(************************ model_loader.get_model ***************************)

Threads == {"t1", "t2", "t3"}

\* calls of get_model per thread
MaxCalls == 2

ModelNames == {"BannedIP", "Other"}

\* a BannedIP class that something else has put in the registry
RegisteredElsewhere == [by |-> "elsewhere", call |-> 0]

\* a thread outside get_model
NoThread == [pc |-> "idle", model_name |-> "BannedIP", BannedIP |-> NoModel,
             ret |-> "none", calls |-> 0]

InitLoader ==
    /\ clock = 0
    /\ file = NoFile
    /\ last = NoCall
    /\ resp = NoResponse
    /\ repeat = FALSE
    /\ streak = [p \in Pairs |-> NoStreak]
    /\ probe = NoProbe
    /\ passes = NoPasses
    /\ commits = <<>>
    /\ loader \in {[NoLoader EXCEPT !.registry = r, !.threads = [t \in Threads |-> NoThread]] :
                      r \in {NoModel, RegisteredElsewhere}}

\* a step of thread t inside get_model changes the loader only
LoaderStep(t, pc) ==
    /\ loader.threads[t].pc = pc
    /\ UNCHANGED <<clock, file, last, resp, repeat, streak, probe, passes, commits>>

\* return _banned_ip_model (value m), leaving the with block if inside it
return_model(l, t, m, locked) ==
    [l EXCEPT !.threads[t].pc = "idle", !.threads[t].ret = "model",
              !.returned = @ \cup {m},
              !.lock = IF locked THEN "free" ELSE @]

\* _model_lock taken without waiting for its holder
acquire_unlocked(l) == TRUE

\* with _model_lock: the lock can be taken when no thread holds it
acquire(l) == l.lock = "free"

\* a thread calls get_model(model_name)
get_model(t) ==
    \E name \in ModelNames :
        /\ LoaderStep(t, "idle")
        /\ loader.threads[t].calls < MaxCalls
        /\ loader' = [loader EXCEPT !.threads[t].pc = "16",
                                     !.threads[t].model_name = name,
                                     !.threads[t].BannedIP = NoModel,
                                     !.threads[t].ret = "none",
                                     !.threads[t].calls = @ + 1]

\* line 16, and line 69 for any other name
check_name(t) ==
    /\ LoaderStep(t, "16")
    /\ loader' = IF loader.threads[t].model_name = "BannedIP"
                  THEN [loader EXCEPT !.threads[t].pc = "17"]
                  ELSE [loader EXCEPT !.threads[t].pc = "idle",
                                      !.threads[t].ret = "ValueError"]

\* lines 17-18, outside the lock
first_check(t) ==
    /\ LoaderStep(t, "17")
    /\ loader' = IF loader.model # NoModel
                  THEN return_model(loader, t, loader.model, FALSE)
                  ELSE [loader EXCEPT !.threads[t].pc = "20"]

\* line 20
enter_lock(t) ==
    /\ LoaderStep(t, "20")
    /\ acquire(loader)
    /\ loader' = [loader EXCEPT !.lock = t, !.threads[t].pc = "22"]

\* lines 22-23
second_check(t) ==
    /\ LoaderStep(t, "22")
    /\ loader' = IF loader.model # NoModel
                  THEN return_model(loader, t, loader.model, TRUE)
                  ELSE [loader EXCEPT !.threads[t].pc = "26"]

\* lines 26-32
check_registry(t) ==
    /\ LoaderStep(t, "26")
    /\ loader' = IF loader.registry # NoModel
                  THEN return_model([loader EXCEPT !.model = loader.registry],
                                    t, loader.registry, TRUE)
                  ELSE [loader EXCEPT !.threads[t].pc = "37"]

\* lines 37-64: the class statement makes a new class and registers it
create_model(t) ==
    /\ LoaderStep(t, "37")
    /\ \E cls \in {[by |-> t, call |-> loader.threads[t].calls]} :
           loader' = [loader EXCEPT !.created = @ + 1,
                                    !.registry = cls,
                                    !.threads[t].BannedIP = cls,
                                    !.threads[t].pc = "66"]

\* lines 66-67
store_model(t) ==
    /\ LoaderStep(t, "66")
    /\ loader' = return_model([loader EXCEPT !.model = loader.threads[t].BannedIP],
                               t, loader.threads[t].BannedIP, TRUE)

NextLoader ==
    \E t \in Threads :
        \/ get_model(t)
        \/ check_name(t)
        \/ first_check(t)
        \/ enter_lock(t)
        \/ second_check(t)
        \/ check_registry(t)
        \/ create_model(t)
        \/ store_model(t)

SpecLoader == InitLoader /\ [][NextLoader]_vars

(********************************* claims **********************************)

\* the records of the store as a reader loads them
Stored == load_banned_ips_from_file(file).ips

Committed == last.outcome = "committed"

InSeq(x, seq) == \E i \in 1..Len(seq) : seq[i] = x

SamePair(a, b) == a.ip_address = b.ip_address /\ a.jail = b.jail

\* banned_at is the text of an instant more than / at least RetentionDays
\* before day c
OlderThanWindow(record, c) ==
    record.banned_at.fmt = "iso" /\ record.banned_at.t < c - RetentionDays

\* C1: key uniqueness -- no two records of the stored snapshot share the same
\* (ip_address, jail) pair.
C1_KeyUniqueness ==
    \A i, j \in 1..Len(Stored) : SamePair(Stored[i], Stored[j]) => i = j

\* C3: expiration -- after a committed pass no record the pass loaded whose
\* banned_at is an instant older than (pass time - 7 days) is still stored,
\* however that banned_at was produced.
C3_Expiration ==
    Committed =>
        \A i \in 1..Len(last.existing) :
            OlderThanWindow(last.existing[i], clock) => ~InSeq(last.existing[i], Stored)

\* C4: retention -- a committed pass removes a record it loaded only when its
\* banned_at is more than seven days before the pass time; every other loaded
\* record is still stored, unchanged.
C4_Retention ==
    Committed =>
        \A i \in 1..Len(last.existing) :
            ~OlderThanWindow(last.existing[i], clock) => InSeq(last.existing[i], Stored)

\* C5: merge completeness -- after a committed pass every reported (ip, jail)
\* pair has a stored record, unless a loaded record of the same ip_address and
\* the same jail survived the expiration (two pairs are the same key only when
\* both fields are equal).
C5_MergeCompleteness ==
    Committed =>
        \A i \in 1..Len(last.all_ips) :
            \E k \in 1..Len(Stored) : SamePair(Stored[k], last.all_ips[i])

\* the stored records of a pair
RecordsOf(p) == {i \in 1..Len(Stored) : pairs_of(Stored)[i] = p}

\* C2, as claimed: after three committed passes in a row that reported a
\* pair, whatever their spacing, the pair's stored banned_at is the value the
\* first of them resolved.
C2_FirstSeenAnySpacing ==
    \A p \in Pairs :
        streak[p].n = 3 =>
            /\ RecordsOf(p) # {}
            /\ \A i \in RecordsOf(p) : Stored[i].banned_at = streak[p].resolved

\* the first of a pair's three passes stored a record for it, and that
\* banned_at is less than seven days before the last pass
ThreePassesInWindow(p) ==
    /\ streak[p].n = 3
    /\ streak[p].stored # None
    /\ clock - streak[p].stored.t < RetentionDays

\* C2, amended: after three committed passes in a row that reported a pair,
\* the pair's stored banned_at is still the one stored after the first of
\* them, provided that value is less than seven days before the third pass.
C2_FirstSeenWithinWindow ==
    \A p \in Pairs :
        ThreePassesInWindow(p) =>
            /\ RecordsOf(p) # {}
            /\ \A i \in RecordsOf(p) : Stored[i].banned_at = streak[p].stored

\* a pair was reported by passes on days 3, 6 and 9 and stored on day 3
C2_Witness ==
    \E p \in Pairs :
        /\ ThreePassesInWindow(p)
        /\ streak[p].stored = isoformat(now_central(clock - 6))

\* C6: idempotence -- when a committed pass follows a committed pass with the
\* same source output and loads no record past the cutoff, it leaves the
\* records exactly as it loaded them; only last_updated moves, to its own time.
C6_Idempotence ==
    repeat =>
        /\ Stored = last.existing
        /\ file.data.last_updated = isoformat(now_central(clock))

\* a second pass over the same non-empty source output
C6_Witness ==
    /\ repeat
    /\ last.all_ips # <<>>
    /\ Stored # <<>>

\* C7: failure semantics -- no call of update_banned_ips lets an exception
\* out, and a call in which an exception is raised before the save leaves
\* banned_ips.json (records and last_updated) exactly as it was.
C7_FailureSemantics ==
    [][clock' # clock =>
          /\ ~last'.raised
          /\ (last'.fault \in Uncaught => (file' = file /\ last'.outcome = "aborted"))]_vars

\* a pass was aborted in its merge step over a store that holds records
C7_Witness ==
    /\ last.fault = "merge"
    /\ last.outcome = "aborted"
    /\ ~last.raised
    /\ Stored # <<>>

\* C8: atomic snapshot visibility -- whatever a step does, a reader loading
\* the file after it gets the snapshot a reader got before it or the complete
\* snapshot a committed pass wrote, never an empty or truncated one.
C8_AtomicSnapshot ==
    [][\/ load_banned_ips_from_file(file') = load_banned_ips_from_file(file)
       \/ /\ last'.outcome = "committed"
          /\ file'.state = "complete"
          /\ load_banned_ips_from_file(file').last_updated
                 = isoformat(now_central(clock'))]_vars

\* C9: manual refresh reporting -- /api/refresh answers success=true only
\* when its pass committed, and success=false when the pass was aborted or
\* its save failed.
C9_RefreshReportsOutcome ==
    resp.route = "refresh" => (resp.success <=> Committed)

\* the records of a list that the expiration must leave: all but those whose
\* banned_at carries an offset and is not after the cutoff
AfterExpiration(ips, c) ==
    SelectSeq(ips, LAMBDA r : ~(/\ r.banned_at.fmt = "iso"
                                /\ r.banned_at.offset
                                /\ r.banned_at.t <= c - RetentionDays))

\* C10: source failure isolation -- a pass that finds no jail (and meets no
\* other failure) raises nothing and commits the loaded records with the
\* expiration applied, adds none, and sets last_updated to its own time.
C10_EmptyJailList ==
    (last.caller # "none" /\ last.jails = <<>> /\ last.fault = "none") =>
        /\ ~last.raised
        /\ Committed
        /\ file.state = "complete"
        /\ file.data.ips = AfterExpiration(last.existing, clock)
        /\ file.data.last_updated = isoformat(now_central(clock))

\* a pass with no jail expired one loaded record and kept another
C10_Witness ==
    /\ last.caller # "none" /\ last.jails = <<>> /\ last.fault = "none"
    /\ Stored # <<>>
    /\ Len(Stored) < Len(last.existing)

\* banned_at is the text of an instant exactly RetentionDays before day c
AtCutoff(record, c) ==
    record.banned_at.fmt = "iso" /\ record.banned_at.t = c - RetentionDays

\* C14: cutoff boundary -- a committed pass retains every record it loaded
\* whose banned_at is exactly equal to the cutoff (pass time - 7 days).
C14_CutoffBoundary ==
    Committed =>
        \A i \in 1..Len(last.existing) :
            AtCutoff(last.existing[i], clock) => InSeq(last.existing[i], Stored)

\* banned_at is missing or is not the text of an instant
Unparsable(record) ==
    \/ "banned_at" \notin DOMAIN record
    \/ record.banned_at.fmt # "iso"

\* C15: unparsable timestamps are retained -- no call of update_banned_ips
\* removes from the store a record whose banned_at is missing or cannot be
\* parsed, however many calls came before (a call whose json.dump fails
\* leaves no readable store at all and is set aside).
C15_UnparsableRetained ==
    [][(clock' # clock /\ last'.fault # "save_dump") =>
          \A i \in 1..Len(Stored) :
              Unparsable(Stored[i]) => InSeq(Stored[i], Stored')]_vars

\* three passes on, the third committed: both records are still stored
C15_Witness ==
    /\ clock = 13
    /\ Committed
    /\ Len(last.existing) > 2
    /\ \A i \in 1..2 : Unparsable(LegacyFile.data.ips[i])
                          /\ InSeq(LegacyFile.data.ips[i], last.existing)
                          /\ InSeq(LegacyFile.data.ips[i], Stored)

\* the last call met no failure, loaded an empty store, found one jail and
\* one banned address in it, and had no raw ban time under the pair's key
OneBanNoRawTime ==
    /\ last.caller # "none" /\ last.fault = "none"
    /\ last.existing = <<>>
    /\ Len(last.jails) = 1
    /\ Len(last.all_ips) = 1
    /\ last.all_ips[1].jail = last.jails[1]
    /\ ip_jail_key(last.all_ips[1].ip_address, last.all_ips[1].jail) \notin last.ban_keys

\* C11: end to end without raw ban times -- from an empty store, one jail
\* with one banned address and no raw ban time for the pair, one pass commits
\* exactly one record for the pair, whose banned_at is the pass's current
\* instant, and last_updated is that same instant.
C11_EndToEndNoRawTime ==
    OneBanNoRawTime =>
        /\ Committed
        /\ file.state = "complete"
        /\ Len(file.data.ips) = 1
        /\ file.data.ips[1].ip_address = last.all_ips[1].ip_address
        /\ file.data.ips[1].jail = last.jails[1]
        /\ file.data.ips[1].banned_at = isoformat(now_central(clock))
        /\ file.data.last_updated = file.data.ips[1].banned_at

\* the first pass found 10.0.0.5 banned in sshd, with no raw ban time
C11_Witness ==
    /\ OneBanNoRawTime
    /\ last.jails = <<JailA>>
    /\ last.all_ips[1].ip_address = IP1
    /\ last.ban_keys = {}
    /\ Stored # <<>>

\* the raw lines of a jail in the probed answer
RawLines(jail) == probe.src.withtime[jail]

\* C12: epoch branch -- a raw line whose date field is an epoch gives its
\* pair the instant of that epoch, whatever the time field holds and also
\* when it is empty: in the dict of ban times and in the pair's record.
C12_EpochBranch ==
    \A jail \in Jails :
        \A i \in 1..Len(RawLines(jail)) :
            LET raw == RawLines(jail)[i]
                key == ip_jail_key(raw[1], jail)
            IN raw[2].kind = "epoch" =>
                /\ "times" \in probe.asked =>
                       /\ key \in DOMAIN probe.ban_times
                       /\ probe.ban_times[key].fmt = "iso"
                       /\ probe.ban_times[key].t = raw[2].v
                /\ "records" \in probe.asked =>
                       \A k \in 1..Len(probe.all_ips) :
                           (probe.all_ips[k].ip_address = raw[1] /\ probe.all_ips[k].jail = jail)
                               => /\ probe.all_ips[k].banned_at.fmt = "iso"
                                  /\ probe.all_ips[k].banned_at.t = raw[2].v

\* the date field is no epoch (digits with at most one point, in range) and
\* the joined fields match none of the four formats
Unresolvable(raw) ==
    /\ raw[2].kind # "epoch"
    /\ \A n \in 1..Len(Formats) : ~(raw[2].kind = Formats[n][1] /\ raw[3] = Formats[n][2])

\* C13: timestamp fallback -- every raw line with a date and a time field
\* gets a defined instant in the dict of ban times, the wall-clock instant of
\* the resolution when it is unresolvable, whatever the other lines of the
\* jail hold; and every record built has a defined instant as banned_at.
C13_TimestampFallback ==
    /\ "times" \in probe.asked =>
           \A jail \in Jails :
               \A i \in 1..Len(RawLines(jail)) :
                   LET raw == RawLines(jail)[i]
                       key == ip_jail_key(raw[1], jail)
                   IN raw[3] # "" =>
                       /\ key \in DOMAIN probe.ban_times
                       /\ probe.ban_times[key].fmt = "iso"
                       /\ Unresolvable(raw) =>
                              probe.ban_times[key] = isoformat(now_naive(clock))
    /\ "records" \in probe.asked =>
           \A k \in 1..Len(probe.all_ips) : probe.all_ips[k].banned_at.fmt = "iso"

\* the first line's date overflows, the second is an epoch that was resolved
C13_Witness ==
    /\ "times" \in probe.asked
    /\ Len(RawLines(JailA)) = 2
    /\ RawLines(JailA)[1][2].kind = "huge" /\ RawLines(JailA)[1][3] = "hms"
    /\ RawLines(JailA)[2][2].kind = "epoch" /\ RawLines(JailA)[2][3] = "hms"
    /\ probe.ban_times[ip_jail_key(IP1, JailA)] = isoformat(now_naive(clock))
    /\ probe.ban_times[ip_jail_key(IP2, JailA)].t = 0

\* some command variant ends with exit code 0
SomeOk == \E i \in DOMAIN probe.src.run : probe.src.run[i] = "ok"

\* C16: ban source fail-soft -- both query functions return the output of
\* the first command variant that exits with code 0 when there is one, and
\* otherwise the empty list (get_banned_ips_for_jail) or the empty or the
\* default jail list (get_all_jails).
C16_FailSoft ==
    /\ "jails" \in probe.asked =>
           IF SomeOk
           THEN probe.jails = IF probe.src.has_jail_line THEN probe.src.jails ELSE <<JailA>>
           ELSE probe.jails \in {<<>>, <<JailA>>}
    /\ "banned" \in probe.asked =>
           \A jail \in Jails :
               probe.banned[jail] = IF SomeOk THEN probe.src.banip[jail] ELSE <<>>

\* a thread is inside a call of get_model with a name other than 'BannedIP'
CallsOther(t) ==
    loader.threads[t].pc # "idle" /\ loader.threads[t].model_name = "Other"

\* C17: thread-safe model singleton -- however the calls of get_model
\* interleave, get_model creates the BannedIP class at most once and all
\* calls for 'BannedIP' return one and the same class object; a call with any
\* other name raises ValueError and leaves _banned_ip_model as it was.
C17_ModelSingleton ==
    [][/\ loader'.created <= 1
       /\ Cardinality(loader'.returned) <= 1
       /\ NoModel \notin loader'.returned
       /\ \A t \in Threads :
              (CallsOther(t) /\ loader'.threads[t] # loader.threads[t]) =>
                  /\ loader'.threads[t].ret = "ValueError"
                  /\ loader'.model = loader.model
                  /\ loader'.returned = loader.returned]_vars

\* all three threads got the class that one of them created, and a call
\* with another name raised ValueError
C17_Witness ==
    /\ loader.created = 1
    /\ loader.model \in loader.returned
    /\ \A t \in Threads : loader.threads[t].calls = MaxCalls /\ loader.threads[t].pc = "idle"
    /\ \E t \in Threads : loader.threads[t].ret = "ValueError"
    /\ \E t, u \in Threads : t # u /\ loader.threads[t].ret = "model"
                                    /\ loader.threads[u].ret = "model"

\* no call of update_banned_ips is running
AllFinished == \A k \in Callers : passes[k].pc = "idle"

\* the saves that wrote a record of the pair of record rec
SavesOf(rec) ==
    {n \in 1..Len(commits) :
        \E i \in 1..Len(commits[n].ips) : SamePair(commits[n].ips[i], rec)}

\* the banned_at the pair of rec was first saved with
FirstSaved(rec) ==
    LET n == CHOOSE m \in SavesOf(rec) : \A o \in SavesOf(rec) : m <= o
    IN stored_banned_at(commits[n].ips, <<rec.ip_address, rec.jail>>)

\* C18: no lost update under overlap -- once the passes that were started
\* have all finished, every record a pass saved, unless older than the
\* retention window, is still in the store with the banned_at its pair was
\* first saved with.
C18_NoLostUpdate ==
    AllFinished =>
        \A n \in 1..Len(commits) :
            \A i \in 1..Len(commits[n].ips) :
                LET rec == commits[n].ips[i]
                IN rec.banned_at.t > clock - RetentionDays =>
                       \E j \in 1..Len(Stored) :
                           /\ SamePair(Stored[j], rec)
                           /\ Stored[j].banned_at = FirstSaved(rec)

\* C19: last_updated is monotone -- the last_updated in the store never
\* moves backwards, and after a save it is no earlier than the start of any
\* pass that saved before.
C19_LastUpdatedMonotone ==
    [][(file'.state = "complete" /\ Len(commits') > Len(commits)) =>
          /\ file.state = "complete" =>
                 file'.data.last_updated.t >= file.data.last_updated.t
          /\ \A n \in 1..Len(commits) :
                 file'.data.last_updated.t >= commits[n].current_time]_vars

====
